---- MODULE Spec2Model ----
\* A model of the nym service provider (sfw-provider/src/provider/mod.rs), of
\* the health checker's scoring (common/healthcheck/src/result.rs) and of the
\* directory's Topology (common/clients/directory-client/src/presence.rs).
EXTENDS Integers, Sequences, FiniteSets, TLC

\* ------------------------------------------------------------------ bounds
\* sphinx::PACKET_SIZE, scaled down: the width of the per-connection buffer.
PACKET_SIZE == 2
\* The most bytes a peer sends on one mixnet connection.
MaxStreamLen == 2
\* The number of distinct destinations (client public keys).
NumClients == 2

\* The mix nodes and providers a directory record can hold, and the mix
\* layers (three in the deployed network), scaled down.
MaxMixNodes == 3
MaxProviders == 1
NumLayers == 2
\* The most iterations run against a network that treats every test packet
\* on its own; the boundary values of `iterations` are run against a network
\* that treats all test packets alike.
MaxIterations == 1
\* The validator (coco) nodes a directory record can hold.
MaxCocoNodes == 1
\* The most calls of the mix-node accessor made on one Topology value.
MaxCalls == 2
\* The most message files a client's mailbox holds when a client connects,
\* beyond MESSAGE_RETRIEVAL_LIMIT.
MaxExtraStored == 2
\* The ticks of the presence notifier in one run.
MaxTicks == 2

\* ------------------------------------------------------- program constants
\* A retrieval limit one above the program's.
MESSAGE_RETRIEVAL_LIMIT_OneMore == 5 + 1
MESSAGE_RETRIEVAL_LIMIT == 5
\* assert!(iterations <= 255)
IterationLimit == 255
\* A tag of seven bits.
TagModulus_SevenBit == 256 \div 2
\* The number of values of the u8 tag `i as u8`.
TagModulus == 256

\* The connections each listener can have accepted: the tasks it can have
\* spawned.
MixConns == {1, 2}
CliConns == {1, 2, 3}
Clients == 1..NumClients
NoDest == 0

VARIABLES
    mixListener,    \* the future of start_mixnet_listening
    clientListener, \* the future of start_client_listening
    mixConn,        \* per mixnet connection: the task of process_mixnet_socket_connection
    cliConn,        \* per client connection: the task of process_client_socket_connection
    ledger,         \* ClientLedger: AuthToken -> DestinationAddressBytes (NoDest: absent)
    mailbox,        \* store_dir: destination -> the set of stored message files
    mixPeers,       \* the peers that have yet to connect to the mixnet listener
    cliPeers        \* the clients that have yet to connect to the client listener

VARIABLES
    topology,       \* calculate's argument: the directory's Topology record
    iterations,     \* calculate's argument
    net,            \* how the network treats test packets during the run
    hcPc,           \* the position of calculate
    all_paths,      \* calculate's local: the paths, once all_paths() returned
    score_map,      \* calculate's local: pub_key bytes -> NodeScore
    statuses,       \* the PathChecker's map: path key -> PathStatus
    hcI, hcP,       \* the send loop's iteration i and its index into all_paths
    result          \* the HealthCheckResult returned, as the set of its scores

VARIABLES
    resolver,       \* the name service as to_socket_addrs() finds it: "up" or "outage"
    mixCalls,       \* the calls of get_mix_nodes made on `topology`, each with its output
    rebuilt,        \* what new_from_nodes returned for the accessors' outputs
    presence,       \* a MixNodePresence given to try_into
    converted,      \* what try_into returned for `presence`
    threshold,      \* filter_topology_by_score's score_threshold
    filtered        \* what filter_topology_by_score returned

VARIABLES
    ledgerLock,     \* the FMutex around the ledger: the task that holds it, or NoHolder
    snapshots       \* what the presence notifier sent at each of its ticks so far

pvars == <<mixListener, clientListener, mixConn, cliConn, ledger, mailbox,
           mixPeers, cliPeers>>
hvars == <<topology, iterations, net, hcPc, all_paths, score_map, statuses,
           hcI, hcP, result>>
tvars == <<resolver, mixCalls, rebuilt, presence, converted, threshold, filtered>>
nvars == <<ledgerLock, snapshots>>
vars == <<pvars, hvars, tvars, nvars>>

\* ------------------------------------------------------------ the network
\* The k-th byte a peer sends on a connection. All bytes of a stream are
\* distinct, so any two different slices of it differ.
Byte(k) == k

\* Bytes [k*PACKET_SIZE, (k+1)*PACKET_SIZE) of a stream, k counted from 0.
StreamPacket(k) == [i \in 1..PACKET_SIZE |-> Byte(k * PACKET_SIZE + i)]

\* ------------------------------------------------------------ ClientLedger
\* The AuthToken of a client: derived from (secret_key, client_pub_key).
TokenOf(cl) == <<"token", cl>>
\* A token this provider never issued.
BogusToken == <<"token", NoDest>>
Tokens == {TokenOf(cl) : cl \in Clients} \cup {BogusToken}

LedgerNew == [t \in Tokens |-> NoDest]
has_token(l, t) == l[t] # NoDest

\* insert_token that takes the item out when the token is there already.
insert_token_Toggles(l, t, dst) ==
    IF l[t] # NoDest THEN [l EXCEPT ![t] = NoDest] ELSE [l EXCEPT ![t] = dst]

\* A ledger that holds the last inserted item only.
insert_token_SingleSlot(l, t, dst) == [x \in Tokens |-> IF x = t THEN dst ELSE NoDest]

\* HashMap::insert
insert_token(l, t, dst) == [l EXCEPT ![t] = dst]

\* The encoding with the standard alphabet for the URL-safe one.
Base64Standard(bytes) == <<"base64", bytes>>

\* base64::encode_config(v, base64::URL_SAFE)
Base64Url(bytes) == <<"base64url", bytes>>

\* current_clients: a MixProviderClient for every item of the map, its
\* pub_key the encoding of the item's value. The Vec is in the order of the
\* map's iteration, which is any; each entry is told here by its item's key.
current_clients(l) ==
    [t \in {x \in Tokens : has_token(l, x)} |-> [pub_key |-> Base64Url(l[t])]]

\* add_arc_futures_mutex: the ledger goes behind a futures Mutex that no task
\* holds. lock().await completes for one task at a time: while a task has
\* the guard, the others wait.
NoHolder == 0
\* A mutex that hands out its guard whether or not another task has it.
FMutexAvailable_Always(holder) == TRUE

FMutexAvailable(holder) == holder = NoHolder

\* ------------------------------------------------- mixnet ingress (task)
NewBuf == [i \in 1..PACKET_SIZE |-> 0]
MixConnInit ==
    [pc |-> "unused", buf |-> NewBuf, rpos |-> 0, nproc |-> 0, acks |-> 0,
     last |-> "none"]

\* socket.read(&mut buf) returning Ok(n), n > 0: the next n bytes of the
\* stream overwrite the first n bytes of buf; the rest of buf is kept.
ReadInto(buf, rpos, n) ==
    [i \in 1..PACKET_SIZE |-> IF i <= n THEN Byte(rpos + i) ELSE buf[i]]

\* ClientStorage::store_processed_data succeeding: a new file under
\* store_dir/<dst>/, named apart from every other file.
StoreFile(mb, dst, file) == [mb EXCEPT ![dst] = @ \cup {file}]

\* The task going back to the read after the store, the acknowledgement left
\* out.
AfterStore_SkipsAck(stored) == "read"

\* The position of the task after the store's unwrap_or_else: the `return`
\* in the closure leaves the closure only, so with either result the task
\* goes on to write the acknowledgement.
AfterStore(stored) == "ack"

\* One pass of the loop up to the acknowledgement: the read, the Sphinx
\* processing of buf and the store.
MixRead(c) ==
    /\ mixConn[c].pc = "read"
    /\ \/ \* Ok(0): the peer closed
          /\ mixConn' = [mixConn EXCEPT ![c].pc = "done", ![c].last = "closed"]
          /\ UNCHANGED mailbox
       \/ \* Err(e)
          /\ mixConn' = [mixConn EXCEPT ![c].pc = "done", ![c].last = "read_err"]
          /\ UNCHANGED mailbox
       \/ \* Ok(n), n > 0
          \E n \in 1..PACKET_SIZE :
             /\ mixConn[c].rpos + n <= MaxStreamLen
             /\ LET buf2 == ReadInto(mixConn[c].buf, mixConn[c].rpos, n)
                    read == [mixConn[c] EXCEPT !.buf = buf2, !.rpos = @ + n,
                                               !.nproc = @ + 1]
                IN \/ \* process_sphinx_data_packet: Err
                      /\ mixConn' = [mixConn EXCEPT
                            ![c] = [read EXCEPT !.pc = "done", !.last = "unwrap_err"]]
                      /\ UNCHANGED mailbox
                   \/ \* Ok(store_data), store_processed_data: Ok
                      \E dst \in Clients :
                         /\ mailbox' = StoreFile(mailbox, dst, <<c, read.nproc>>)
                         /\ mixConn' = [mixConn EXCEPT
                               ![c] = [read EXCEPT !.pc = AfterStore(TRUE),
                                                   !.last = "stored"]]
                   \/ \* Ok(store_data), store_processed_data: Err
                      /\ mixConn' = [mixConn EXCEPT
                            ![c] = [read EXCEPT !.pc = AfterStore(FALSE),
                                                !.last = "store_err"]]
                      /\ UNCHANGED mailbox
    /\ UNCHANGED <<mixListener, clientListener, cliConn, ledger, mixPeers, cliPeers, hvars, tvars, nvars>>

\* MixWriteAck with the `return` after a failed write left out: the loop goes
\* on to the next read.
MixWriteAck_NoReturn(c) ==
    /\ mixConn[c].pc = "ack"
    /\ \/ mixConn' = [mixConn EXCEPT ![c].pc = "read", ![c].acks = @ + 1,
                                     ![c].last = "acked"]
       \/ mixConn' = [mixConn EXCEPT ![c].pc = "read", ![c].last = "ack_err"]
    /\ UNCHANGED <<mixListener, clientListener, cliConn, ledger, mailbox, mixPeers, cliPeers, hvars, tvars, nvars>>

\* socket.write_all(b"foomp"): the acknowledgement, then the next pass.
MixWriteAck(c) ==
    /\ mixConn[c].pc = "ack"
    /\ \/ mixConn' = [mixConn EXCEPT ![c].pc = "read", ![c].acks = @ + 1,
                                     ![c].last = "acked"]
       \/ mixConn' = [mixConn EXCEPT ![c].pc = "done", ![c].last = "ack_err"]
    /\ UNCHANGED <<mixListener, clientListener, cliConn, ledger, mailbox, mixPeers, cliPeers, hvars, tvars, nvars>>

\* ------------------------------------------------------ mixnet listener
\* TcpListener::bind(address).await?
MixBind ==
    /\ mixListener = "unbound"
    /\ mixListener' \in {"listening", "bind_err"}
    /\ UNCHANGED <<clientListener, mixConn, cliConn, ledger, mailbox, mixPeers, cliPeers, hvars, tvars, nvars>>

\* listener.accept().await? and the spawn of the connection's task.
MixAccept ==
    /\ mixListener = "listening"
    /\ \/ \E c \in MixConns :
             /\ mixPeers > 0
             /\ mixConn[c].pc = "unused"
             /\ \A d \in MixConns : d < c => mixConn[d].pc # "unused"
             /\ mixConn' = [mixConn EXCEPT ![c].pc = "read"]
             /\ mixPeers' = mixPeers - 1
             /\ UNCHANGED mixListener
       \/ /\ mixListener' = "accept_err"
          /\ UNCHANGED <<mixConn, mixPeers>>
    /\ UNCHANGED <<clientListener, cliConn, ledger, mailbox, cliPeers, hvars, tvars, nvars>>

\* ------------------------------------------------- client ingress (task)
CliConnInit ==
    [pc |-> "unused", request |-> <<"none">>, listed |-> {},
     response |-> <<"none">>, wrote |-> "none"]

BadFoomp == <<"bad foomp">>

\* The files one Retrieve takes from a mailbox directory: up to
\* MESSAGE_RETRIEVAL_LIMIT of them, whichever the directory lists first.
RetrievableSets(files) ==
    {s \in SUBSET files :
        Cardinality(s) = IF Cardinality(files) < MESSAGE_RETRIEVAL_LIMIT
                         THEN Cardinality(files) ELSE MESSAGE_RETRIEVAL_LIMIT}

\* The requests a client can send: one that does not parse, Register with a
\* client key, Retrieve with a token.
Requests ==
    {<<"malformed">>} \cup {<<"register", cl>> : cl \in Clients}
        \cup {<<"retrieve", t>> : t \in Tokens}

\* ClientRequestProcessor::process_client_request up to its first file I/O:
\* what it returns, and the ledger it leaves. Register inserts the client's
\* token and returns it; Retrieve of a token the ledger does not have is an
\* error; Retrieve of a known token lists up to MESSAGE_RETRIEVAL_LIMIT files
\* of the client's mailbox directory and goes on to read them.
process_client_request(req, l, mb) ==
    CASE req[1] = "register" ->
            {[ok |-> TRUE, listing |-> FALSE, listed |-> {},
              response |-> <<"token", TokenOf(req[2])>>,
              ledger |-> insert_token(l, TokenOf(req[2]), req[2])]}
      [] req[1] = "retrieve" /\ has_token(l, req[2]) ->
            {[ok |-> TRUE, listing |-> TRUE, listed |-> files,
              response |-> <<"none">>, ledger |-> l] :
                files \in RetrievableSets(mb[l[req[2]]])}
      [] OTHER -> {[ok |-> FALSE, listing |-> FALSE, listed |-> {},
                    response |-> <<"none">>, ledger |-> l]}

\* The rest of a Retrieve: the listed files are read into the response and
\* deleted, each file consumed by one task only. A listed file that another
\* task consumed since the listing is not there to take: the request goes
\* without it, or fails.
ConsumeOutcomes(listed, files) ==
    {[ok |-> TRUE, taken |-> listed \cap files]}
        \cup (IF listed \subseteq files THEN {} ELSE {[ok |-> FALSE, taken |-> {}]})

\* ClientRead that ends the task when the request could not be processed,
\* sending nothing.
ClientRead_ErrorUnanswered(c) ==
    /\ cliConn[c].pc = "read"
    /\ \/ /\ cliConn' = [cliConn EXCEPT ![c].pc = "respond",
                                         ![c].request = <<"unread">>,
                                         ![c].response = BadFoomp]
          /\ UNCHANGED ledgerLock
       \/ \E req \in Requests :
             /\ req[1] = "register"
             /\ FMutexAvailable(ledgerLock)
             /\ ledgerLock' = c
             /\ cliConn' = [cliConn EXCEPT ![c].pc = "insert", ![c].request = req]
       \/ \E req \in Requests :
             /\ req[1] # "register"
             /\ req[1] = "retrieve" => FMutexAvailable(ledgerLock)
             /\ \E out \in process_client_request(req, ledger, mailbox) :
                   cliConn' = [cliConn EXCEPT
                      ![c].pc = IF out.listing THEN "retrieve"
                                ELSE IF out.ok THEN "respond" ELSE "done",
                      ![c].request = req,
                      ![c].listed = out.listed,
                      ![c].response = out.response]
             /\ UNCHANGED ledgerLock
    /\ UNCHANGED <<mixListener, clientListener, mixConn, ledger, mailbox, mixPeers, cliPeers, hvars, tvars, snapshots>>

\* The single read of the connection and process_client_request on what was
\* read, up to the point where the task can be suspended with the request in
\* hand. A Register takes the ledger's mutex and has the insert to do. A
\* Retrieve looks its token up under the mutex and lets it go, then is at its
\* first file I/O. Without either, the socket's read half is shut down too:
\* the response is then what process_client_request returned or, after any
\* error, b"bad foomp". A task that finds the mutex taken waits for it, which
\* shows to the others as a later read.
ClientRead(c) ==
    /\ cliConn[c].pc = "read"
    /\ \/ \* Ok(0) or Err(e)
          /\ cliConn' = [cliConn EXCEPT ![c].pc = "respond",
                                         ![c].request = <<"unread">>,
                                         ![c].response = BadFoomp]
          /\ UNCHANGED ledgerLock
       \/ \* Ok(n), n > 0: Register
          \E req \in Requests :
             /\ req[1] = "register"
             /\ FMutexAvailable(ledgerLock)
             /\ ledgerLock' = c
             /\ cliConn' = [cliConn EXCEPT ![c].pc = "insert", ![c].request = req]
       \/ \* Ok(n), n > 0: Retrieve, or bytes that are no request
          \E req \in Requests :
             /\ req[1] # "register"
             /\ req[1] = "retrieve" => FMutexAvailable(ledgerLock)
             /\ \E out \in process_client_request(req, ledger, mailbox) :
                   cliConn' = [cliConn EXCEPT
                      ![c].pc = IF out.listing THEN "retrieve" ELSE "respond",
                      ![c].request = req,
                      ![c].listed = out.listed,
                      ![c].response = IF out.listing \/ out.ok THEN out.response
                                      ELSE BadFoomp]
             /\ UNCHANGED ledgerLock
    /\ UNCHANGED <<mixListener, clientListener, mixConn, ledger, mailbox, mixPeers, cliPeers, hvars, tvars, snapshots>>

\* process_client_request resumed for a Register, the mutex held: the token
\* goes into the ledger, the guard is dropped and the token is the response;
\* process_client_socket_connection then shuts down the socket's read half.
ClientInsert(c) ==
    /\ cliConn[c].pc = "insert"
    /\ \E out \in process_client_request(cliConn[c].request, ledger, mailbox) :
          /\ ledger' = out.ledger
          /\ cliConn' = [cliConn EXCEPT ![c].pc = "respond",
                                         ![c].response = out.response]
    /\ ledgerLock' = NoHolder
    /\ UNCHANGED <<mixListener, clientListener, mixConn, mailbox, mixPeers, cliPeers, hvars, tvars, snapshots>>

\* ClientRetrieve that leaves the files it read in the mailbox.
ClientRetrieve_KeepsFiles(c) ==
    /\ cliConn[c].pc = "retrieve"
    /\ LET d == ledger[cliConn[c].request[2]]
       IN \E out \in ConsumeOutcomes(cliConn[c].listed, mailbox[d]) :
             cliConn' = [cliConn EXCEPT
                 ![c].pc = "respond",
                 ![c].listed = {},
                 ![c].response = IF out.ok THEN <<"messages", d, out.taken>>
                                 ELSE BadFoomp]
    /\ UNCHANGED <<mixListener, clientListener, mixConn, ledger, mailbox, mixPeers, cliPeers, hvars, tvars, nvars>>

\* process_client_request resumed for a Retrieve: the files are consumed and
\* the response is returned to process_client_socket_connection, which shuts
\* down the socket's read half.
ClientRetrieve(c) ==
    /\ cliConn[c].pc = "retrieve"
    /\ LET d == ledger[cliConn[c].request[2]]
       IN \E out \in ConsumeOutcomes(cliConn[c].listed, mailbox[d]) :
             /\ mailbox' = [mailbox EXCEPT ![d] = @ \ out.taken]
             /\ cliConn' = [cliConn EXCEPT
                   ![c].pc = "respond",
                   ![c].listed = {},
                   ![c].response = IF out.ok THEN <<"messages", d, out.taken>>
                                   ELSE BadFoomp]
    /\ UNCHANGED <<mixListener, clientListener, mixConn, ledger, mixPeers, cliPeers, hvars, tvars, nvars>>

\* send_response in a loop that goes back to read the next request.
ClientRespond_KeepsReading(c) ==
    /\ cliConn[c].pc = "respond"
    /\ \E w \in {"ok", "err"} :
          cliConn' = [cliConn EXCEPT ![c].pc = "read", ![c].wrote = w]
    /\ UNCHANGED <<mixListener, clientListener, mixConn, ledger, mailbox, mixPeers, cliPeers, hvars, tvars, nvars>>

\* send_response: write_all(data), whose error is logged and nothing more,
\* then shutdown(Write); the task ends.
ClientRespond(c) ==
    /\ cliConn[c].pc = "respond"
    /\ \E w \in {"ok", "err"} :
          cliConn' = [cliConn EXCEPT ![c].pc = "done", ![c].wrote = w]
    /\ UNCHANGED <<mixListener, clientListener, mixConn, ledger, mailbox, mixPeers, cliPeers, hvars, tvars, nvars>>

\* ---------------------------------------------------- presence notifier
\* One tick of presence::Notifier::run: the ledger's mutex is taken,
\* current_clients() is copied out and the guard dropped; the presence record
\* with these registered_clients is sent to the directory; whether the
\* directory takes it changes nothing in the provider.
NotifierTick ==
    /\ Len(snapshots) < MaxTicks
    /\ FMutexAvailable(ledgerLock)
    /\ snapshots' = Append(snapshots, [registered_clients |-> current_clients(ledger)])
    /\ UNCHANGED <<pvars, hvars, tvars, ledgerLock>>

\* ------------------------------------------------------ client listener
ClientBind ==
    /\ clientListener = "unbound"
    /\ clientListener' \in {"listening", "bind_err"}
    /\ UNCHANGED <<mixListener, mixConn, cliConn, ledger, mailbox, mixPeers, cliPeers, hvars, tvars, nvars>>

ClientAccept ==
    /\ clientListener = "listening"
    /\ \/ \E c \in CliConns :
             /\ cliPeers > 0
             /\ cliConn[c].pc = "unused"
             /\ \A d \in CliConns : d < c => cliConn[d].pc # "unused"
             /\ cliConn' = [cliConn EXCEPT ![c].pc = "read"]
             /\ cliPeers' = cliPeers - 1
             /\ UNCHANGED clientListener
       \/ /\ clientListener' = "accept_err"
          /\ UNCHANGED <<cliConn, cliPeers>>
    /\ UNCHANGED <<mixListener, mixConn, ledger, mailbox, mixPeers, hvars, tvars, nvars>>

\* ------------------------------------------------------------ Topology
\* std::net::SocketAddr, told apart from the text it is parsed from and
\* printed as.
SocketAddr(text) == <<"SocketAddr", text>>
SocketAddrToString(addr) == addr[2]

\* The "host:port" strings that are an IP address and a port: to_socket_addrs
\* parses these and asks no name service.
IpLiterals == {"10.0.0.1:1234", "93.184.216.34:1234", "[2606:2800::1]:1234"}

\* host.to_socket_addrs(): an error, or the addresses the host resolves to,
\* in order. A name resolves only while the name service is up.
to_socket_addrs(host) ==
    CASE host \in IpLiterals -> [ok |-> TRUE, addrs |-> <<SocketAddr(host)>>]
      [] host = "nymtech.net:1234" /\ resolver = "up" ->
            [ok |-> TRUE, addrs |-> <<SocketAddr("93.184.216.34:1234"),
                                      SocketAddr("[2606:2800::1]:1234")>>]
      [] host = "noaddress.example:1234" /\ resolver = "up" ->
            [ok |-> TRUE, addrs |-> <<>>]
      [] OTHER -> [ok |-> FALSE]

\* pub_key strings are base64; the bytes they decode to identify the node.
MixPubKey(k) == <<"b64", "mix", k>>
ProviderPubKey(k) == <<"b64", "provider", k>>
CocoPubKey(k) == <<"b64", "coco", k>>
get_pub_key_bytes(pub_key) == <<pub_key[2], pub_key[3]>>

\* The layer of the k-th mix node of the directory.
LayerOf(k) == ((k - 1) % NumLayers) + 1

\* The k-th MixNodePresence of the directory, under a host string.
MixNodePresence(k, h) ==
    [host |-> h, pub_key |-> MixPubKey(k), layer |-> LayerOf(k),
     last_seen |-> k, version |-> "0.1.0"]
\* The k-th MixProviderPresence and CocoPresence of the directory.
MixProviderPresence(k) ==
    [client_listener |-> "10.0.0.1:1234", mixnet_listener |-> "93.184.216.34:1234",
     pub_key |-> ProviderPubKey(k), registered_clients |-> <<>>,
     last_seen |-> k, version |-> "0.1.0"]
CocoPresence(k) ==
    [host |-> "coco.example:4000", pub_key |-> CocoPubKey(k),
     last_seen |-> k, version |-> "0.1.0"]

\* The Topology records calculate is run on: any of the directory's mix
\* nodes, each under a host name that resolves or under one that does not,
\* and any of its providers, in the directory's order.
ProbedHosts == {"nymtech.net:1234", "foomp.foomp.foomp:1234"}
RECURSIVE MixRecords(_)
MixRecords(k) ==
    IF k = 0 THEN {<<>>}
    ELSE LET shorter == MixRecords(k - 1)
         IN shorter \cup
            {Append(s, MixNodePresence(k, h)) : s \in shorter, h \in ProbedHosts}
RECURSIVE ProviderRecords(_)
ProviderRecords(k) ==
    IF k = 0 THEN {<<>>}
    ELSE LET shorter == ProviderRecords(k - 1)
         IN shorter \cup {Append(s, MixProviderPresence(k)) : s \in shorter}
\* The directory's validators: the first k of them, for any k.
CocoRecords(k) == {[j \in 1..n |-> CocoPresence(j)] : n \in 0..k}
Topologies ==
    [coco_nodes : CocoRecords(MaxCocoNodes),
     mix_nodes : MixRecords(MaxMixNodes),
     mix_provider_nodes : ProviderRecords(MaxProviders)]

\* try_into taking the last resolved address for the first.
MixNodeTryInto_LastAddress(p) ==
    LET resolved == to_socket_addrs(p.host)
    IN IF ~resolved.ok
       THEN [ok |-> FALSE, error |-> "lookup failed"]
       ELSE IF resolved.addrs = <<>>
       THEN [ok |-> FALSE, error |-> "no valid socket address"]
       ELSE [ok |-> TRUE,
             node |-> [host |-> resolved.addrs[Len(resolved.addrs)],
                       pub_key |-> p.pub_key, layer |-> p.layer,
                       last_seen |-> p.last_seen, version |-> p.version]]

\* TryInto<topology::MixNode> for MixNodePresence.
MixNodeTryInto(p) ==
    LET resolved == to_socket_addrs(p.host)
    IN IF ~resolved.ok
       THEN [ok |-> FALSE, error |-> "lookup failed"]
       ELSE IF resolved.addrs = <<>>
       THEN [ok |-> FALSE, error |-> "no valid socket address"]
       ELSE [ok |-> TRUE,
             node |-> [host |-> Head(resolved.addrs), pub_key |-> p.pub_key,
                       layer |-> p.layer, last_seen |-> p.last_seen,
                       version |-> p.version]]

\* From<topology::MixNode> for MixNodePresence.
MixNodePresenceFrom(mn) ==
    [host |-> SocketAddrToString(mn.host), pub_key |-> mn.pub_key,
     layer |-> mn.layer, last_seen |-> mn.last_seen, version |-> mn.version]

\* Into<topology::CocoNode> for CocoPresence, and From back.
CocoInto(p) ==
    [host |-> p.host, pub_key |-> p.pub_key, last_seen |-> p.last_seen,
     version |-> p.version]
CocoPresenceFrom(cn) ==
    [host |-> cn.host, pub_key |-> cn.pub_key, last_seen |-> cn.last_seen,
     version |-> cn.version]

\* Into<topology::MixProviderNode> for MixProviderPresence, and From back;
\* the directory's listener strings are IP literals, which parse.
MixProviderInto(p) ==
    [client_listener |-> SocketAddr(p.client_listener),
     mixnet_listener |-> SocketAddr(p.mixnet_listener),
     pub_key |-> p.pub_key, registered_clients |-> p.registered_clients,
     last_seen |-> p.last_seen, version |-> p.version]
MixProviderPresenceFrom(mpn) ==
    [client_listener |-> SocketAddrToString(mpn.client_listener),
     mixnet_listener |-> SocketAddrToString(mpn.mixnet_listener),
     pub_key |-> mpn.pub_key, registered_clients |-> mpn.registered_clients,
     last_seen |-> mpn.last_seen, version |-> mpn.version]

\* filter_map that ends at the first record that does not convert.
RECURSIVE FilterMapTryInto_StopsAtFailure(_)
FilterMapTryInto_StopsAtFailure(records) ==
    IF records = <<>> THEN <<>>
    ELSE LET r == MixNodeTryInto(Head(records))
         IN IF r.ok THEN <<r.node>> \o FilterMapTryInto_StopsAtFailure(Tail(records))
            ELSE <<>>

\* filter_map(f).collect() over a sequence: the nodes of the records that
\* convert, in the records' order.
RECURSIVE FilterMapTryInto(_)
FilterMapTryInto(records) ==
    IF records = <<>> THEN <<>>
    ELSE LET r == MixNodeTryInto(Head(records))
         IN (IF r.ok THEN <<r.node>> ELSE <<>>) \o FilterMapTryInto(Tail(records))

get_mix_nodes(t) == FilterMapTryInto(t.mix_nodes)
get_mix_provider_nodes(t) ==
    [j \in 1..Len(t.mix_provider_nodes) |-> MixProviderInto(t.mix_provider_nodes[j])]
get_coco_nodes(t) == [j \in 1..Len(t.coco_nodes) |-> CocoInto(t.coco_nodes[j])]

\* Topology::new_from_nodes.
new_from_nodes(mix_nodes, mix_provider_nodes, coco_nodes) ==
    [coco_nodes |-> [j \in 1..Len(coco_nodes) |-> CocoPresenceFrom(coco_nodes[j])],
     mix_nodes |-> [j \in 1..Len(mix_nodes) |-> MixNodePresenceFrom(mix_nodes[j])],
     mix_provider_nodes |->
        [j \in 1..Len(mix_provider_nodes) |->
            MixProviderPresenceFrom(mix_provider_nodes[j])]]

\* NymTopology::all_paths: the Cartesian product of the layers' mix nodes
\* and the providers, each path as the pub_key bytes of its hops; an error
\* when a layer or the provider set is empty.
SeqFilterLayer(nodes, l) == SelectSeq(nodes, LAMBDA n : n.layer = l)
KeyBytesOf(nodes) == [j \in 1..Len(nodes) |-> get_pub_key_bytes(nodes[j].pub_key)]

RECURSIVE CartesianProduct(_)
CartesianProduct(lists) ==
    IF lists = <<>> THEN << <<>> >>
    ELSE LET first == Head(lists)
             rest == CartesianProduct(Tail(lists))
         IN [n \in 1..(Len(first) * Len(rest)) |->
                <<first[((n - 1) \div Len(rest)) + 1]>>
                    \o rest[((n - 1) % Len(rest)) + 1]]

HopLists(t) ==
    [l \in 1..NumLayers |-> KeyBytesOf(SeqFilterLayer(get_mix_nodes(t), l))]
        \o <<KeyBytesOf(get_mix_provider_nodes(t))>>

AllPaths(t) ==
    IF \E j \in 1..(NumLayers + 1) : HopLists(t)[j] = <<>>
    THEN [ok |-> FALSE]
    ELSE [ok |-> TRUE, paths |-> CartesianProduct(HopLists(t))]

\* ----------------------------------------------------------- PathChecker
\* The key of a test packet: the hops' pub_key bytes and the iteration as
\* the u8 it is passed as.
PathKey(path, i) == <<path, i % TagModulus>>
path_key_to_node_keys(path_key) == path_key[1]

\* send_test_packet: the status the packet's key gets, Malformed when the
\* send to the entry hop fails.
SendStatuses == IF net = "any" THEN {"Pending", "Malformed"}
                ELSE IF net = "down" THEN {"Malformed"} ELSE {"Pending"}

\* resolve_pending_checks: the pending keys found delivered become Healthy,
\* the others Unresolved.
Pending(st) == {k \in DOMAIN st : st[k] = "Pending"}
Deliveries(st) ==
    IF net = "any" THEN SUBSET Pending(st)
    ELSE IF net = "up" THEN {Pending(st)} ELSE {{}}
Resolved(st, delivered) ==
    [k \in DOMAIN st |->
        IF st[k] = "Pending"
        THEN (IF k \in delivered THEN "Healthy" ELSE "Unresolved")
        ELSE st[k]]

\* ------------------------------------------------------- HealthCheckResult
\* NodeScore::from_mixnode / from_provider.
NewScore(node) ==
    [pub_key |-> get_pub_key_bytes(node.pub_key), sent |-> 0, received |-> 0]

SeqRange(seq) == {seq[j] : j \in 1..Len(seq)}

\* zero_score without the chained providers.
zero_score_MixesOnly(t) == {NewScore(n) : n \in SeqRange(get_mix_nodes(t))}

\* zero_score: a score from every mix node and every provider the accessors
\* return.
zero_score(t) ==
    {NewScore(n) : n \in SeqRange(get_mix_nodes(t))}
        \cup {NewScore(n) : n \in SeqRange(get_mix_provider_nodes(t))}

\* calculate, lines 111-122: an entry for every mix node and provider.
NewScoreMap(t) ==
    LET nodes == SeqRange(get_mix_nodes(t)) \cup SeqRange(get_mix_provider_nodes(t))
    IN [key \in {get_pub_key_bytes(n.pub_key) : n \in nodes} |->
           [pub_key |-> key, sent |-> 0, received |-> 0]]

\* IncreaseSent that stops before the path's last hop, the provider.
RECURSIVE IncreaseSent_SkipsProvider(_, _)
IncreaseSent_SkipsProvider(sm, path) ==
    IF Len(path) <= 1 THEN sm
    ELSE IncreaseSent_SkipsProvider([sm EXCEPT ![Head(path)].sent = @ + 1], Tail(path))

\* calculate, lines 133-136: increase_sent_packet_count for each node of the
\* path.
RECURSIVE IncreaseSent(_, _)
IncreaseSent(sm, path) ==
    IF path = <<>> THEN sm
    ELSE IncreaseSent([sm EXCEPT ![Head(path)].sent = @ + 1], Tail(path))

\* calculate, lines 147-156: increase_received_packet_count once for each
\* node of each path key whose status is Healthy, that is, for a node, once
\* for every place it has among the hops of a Healthy key.
CountsAsReceived(status) == status = "Healthy"
HopsReceived(st) ==
    UNION {{<<k, j>> : j \in 1..Len(path_key_to_node_keys(k))} :
              k \in {x \in DOMAIN st : CountsAsReceived(st[x])}}
Tally(sm, st) ==
    [n \in DOMAIN sm |->
        [sm[n] EXCEPT !.received =
            @ + Cardinality({h \in HopsReceived(st) :
                                path_key_to_node_keys(h[1])[h[2]] = n})]]

\* The assertion off by one: iterations < 255.
IterationsAccepted_Strict(n) == n < IterationLimit

\* assert!(iterations <= 255)
IterationsAccepted(n) == n <= IterationLimit

NoPaths == [ok |-> FALSE, evaluated |-> FALSE]
NoStatuses == [k \in {} |-> "Pending"]
NoScores == [k \in {} |-> 0]

\* calculate up to the new score_map: the assertion, all_paths(), and
\* zero_score when there is no path.
HcBegin ==
    /\ hcPc = "begin"
    /\ IF ~IterationsAccepted(iterations)
       THEN /\ hcPc' = "panicked"
            /\ UNCHANGED <<all_paths, score_map, hcI, hcP, result>>
       ELSE LET paths == AllPaths(topology)
            IN /\ all_paths' = paths @@ [evaluated |-> TRUE]
               /\ IF ~paths.ok
                  THEN /\ result' = zero_score(topology)
                       /\ hcPc' = "done"
                       /\ UNCHANGED <<score_map, hcI, hcP>>
                  ELSE /\ hcPc' = "score_map"
                       /\ UNCHANGED <<score_map, hcI, hcP, result>>
    /\ UNCHANGED <<topology, iterations, net, statuses, pvars, tvars, nvars>>

\* calculate, lines 111-125: the accessors are called again, after
\* all_paths() called them, and score_map gets an entry for every node they
\* return now.
HcScoreMap ==
    /\ hcPc = "score_map"
    /\ score_map' = NewScoreMap(topology)
    /\ hcPc' = IF iterations = 0 THEN "resolve" ELSE "send"
    /\ hcI' = 0
    /\ hcP' = 1
    /\ UNCHANGED <<topology, iterations, net, all_paths, statuses, result, pvars, tvars, nvars>>

\* score_map.get_mut(key).unwrap() for every node of the path: Some for all
\* of them, or calculate panics.
LookupsSucceed(sm, path) == \A j \in 1..Len(path) : path[j] \in DOMAIN sm

\* HcSend that increases sent only when the send did not fail.
HcSend_SkipsMalformed ==
    /\ hcPc = "send"
    /\ LET path == all_paths.paths[hcP]
           lastPath == hcP = Len(all_paths.paths)
       IN /\ \E status \in SendStatuses :
                /\ statuses' = (PathKey(path, hcI) :> status) @@ statuses
                /\ score_map' = IF status = "Malformed" THEN score_map
                                 ELSE IncreaseSent(score_map, path)
          /\ hcP' = IF lastPath THEN 1 ELSE hcP + 1
          /\ hcI' = IF lastPath THEN hcI + 1 ELSE hcI
          /\ hcPc' = IF lastPath /\ hcI + 1 = iterations THEN "resolve" ELSE "send"
    /\ UNCHANGED <<topology, iterations, net, all_paths, result, pvars, tvars, nvars>>

\* One pass of the inner loop: send_test_packet(path, i as u8) and the
\* increase of sent for every node of the path, which panics at a node that
\* has no entry in score_map.
HcSend ==
    /\ hcPc = "send"
    /\ LET path == all_paths.paths[hcP]
           lastPath == hcP = Len(all_paths.paths)
       IN /\ \E status \in SendStatuses :
                statuses' = (PathKey(path, hcI) :> status) @@ statuses
          /\ IF LookupsSucceed(score_map, path)
             THEN /\ score_map' = IncreaseSent(score_map, path)
                  /\ hcP' = IF lastPath THEN 1 ELSE hcP + 1
                  /\ hcI' = IF lastPath THEN hcI + 1 ELSE hcI
                  /\ hcPc' = IF lastPath /\ hcI + 1 = iterations
                             THEN "resolve" ELSE "send"
             ELSE /\ hcPc' = "lookup_panicked"
                  /\ UNCHANGED <<score_map, hcI, hcP>>
    /\ UNCHANGED <<topology, iterations, net, all_paths, result, pvars, tvars, nvars>>

\* The rest of calculate: the wait, resolve_pending_checks, the tally of
\* received and the returned scores.
HcResolve ==
    /\ hcPc = "resolve"
    /\ \E delivered \in Deliveries(statuses) :
          LET st == Resolved(statuses, delivered)
              sm == Tally(score_map, st)
          IN /\ statuses' = st
             /\ score_map' = sm
             /\ result' = {sm[k] : k \in DOMAIN sm}
    /\ hcPc' = "done"
    /\ UNCHANGED <<topology, iterations, net, all_paths, hcI, hcP, pvars, tvars, nvars>>

\* No health check is run.
NoTopology == [coco_nodes |-> <<>>, mix_nodes |-> <<>>, mix_provider_nodes |-> <<>>]
NoHealthCheck ==
    /\ iterations = 0
    /\ net = "up"
    /\ hcPc = "idle"
    /\ all_paths = NoPaths
    /\ score_map = NoScores
    /\ statuses = NoStatuses
    /\ hcI = 0
    /\ hcP = 1
    /\ result = {}

\* ------------------------------------------- filter_topology_by_score
\* NodeScore::score: received / sent, or 0 when nothing was sent; the ratio
\* as its numerator and denominator.
score(s) ==
    IF s.sent > 0 THEN [num |-> s.received, den |-> s.sent]
    ELSE [num |-> 0, den |-> 1]

\* node_score: the score of the entry with the key, if there is one. (The
\* entries of a result have different keys.)
node_score(res, node_key) ==
    IF \E s \in res : s.pub_key = node_key
    THEN [some |-> TRUE, score |-> score(CHOOSE s \in res : s.pub_key = node_key)]
    ELSE [some |-> FALSE]

\* The score thresholds: an f64 that is a ratio, or an infinity.
Thresholds ==
    {[kind |-> "neg_inf", num |-> 0, den |-> 1],
     [kind |-> "finite", num |-> 1, den |-> 2],
     [kind |-> "pos_inf", num |-> 0, den |-> 1]}

\* The comparison with >= for >.
ExceedsThreshold_OrEqual(sc, th) ==
    CASE th.kind = "neg_inf" -> TRUE
      [] th.kind = "pos_inf" -> FALSE
      [] OTHER -> sc.num * th.den >= th.num * sc.den

\* score > score_threshold
ExceedsThreshold(sc, th) ==
    CASE th.kind = "neg_inf" -> TRUE
      [] th.kind = "pos_inf" -> FALSE
      [] OTHER -> sc.num * th.den > th.num * sc.den

\* The closure given to filter: false for a node without a score.
KeepsNode(res, th, node) ==
    LET found == node_score(res, get_pub_key_bytes(node.pub_key))
    IN found.some /\ ExceedsThreshold(found.score, th)

filter_topology_by_score(res, t, th) ==
    new_from_nodes(
        SelectSeq(get_mix_nodes(t), LAMBDA node : KeepsNode(res, th, node)),
        SelectSeq(get_mix_provider_nodes(t), LAMBDA node : KeepsNode(res, th, node)),
        get_coco_nodes(t))

\* The results a topology is filtered by: those of a run on some snapshot of
\* the directory, so with or without a score for each node of the topology;
\* a score of 0/0, of 1/2 or of 1/1.
ScoreOptions ==
    {[present |-> FALSE, sent |-> 0, received |-> 0],
     [present |-> TRUE, sent |-> 0, received |-> 0],
     [present |-> TRUE, sent |-> 2, received |-> 1],
     [present |-> TRUE, sent |-> 1, received |-> 1]}
ScoredResults(t) ==
    LET keys == {get_pub_key_bytes(t.mix_nodes[j].pub_key) : j \in 1..Len(t.mix_nodes)}
                  \cup {get_pub_key_bytes(t.mix_provider_nodes[j].pub_key) :
                           j \in 1..Len(t.mix_provider_nodes)}
    IN {{[pub_key |-> k, sent |-> f[k].sent, received |-> f[k].received] :
            k \in {x \in keys : f[x].present}} : f \in [keys -> ScoreOptions]}

\* ------------------------------------------------- uses of a Topology
\* The name service going down or coming back between two calls.
ResolverChange ==
    /\ resolver' = IF resolver = "up" THEN "outage" ELSE "up"
    /\ UNCHANGED <<mixCalls, rebuilt, presence, converted, threshold, filtered,
                   pvars, hvars, nvars>>

\* A call of topology.get_mix_nodes(), recorded with the state of the name
\* service it ran in.
TopoGetMixNodes ==
    /\ Len(mixCalls) < MaxCalls
    /\ mixCalls' = Append(mixCalls, [resolver |-> resolver,
                                     nodes |-> get_mix_nodes(topology)])
    /\ UNCHANGED <<resolver, rebuilt, presence, converted, threshold, filtered,
                   pvars, hvars, nvars>>

\* new_from_nodes on what the three accessors return: wire to model to wire.
TopoRebuild ==
    /\ rebuilt = <<>>
    /\ rebuilt' = <<new_from_nodes(get_mix_nodes(topology),
                                   get_mix_provider_nodes(topology),
                                   get_coco_nodes(topology))>>
    /\ UNCHANGED <<resolver, mixCalls, presence, converted, threshold, filtered,
                   pvars, hvars, nvars>>

\* presence.try_into()
TryIntoCall ==
    /\ converted = <<>>
    /\ converted' = <<MixNodeTryInto(presence)>>
    /\ UNCHANGED <<resolver, mixCalls, rebuilt, presence, threshold, filtered,
                   pvars, hvars, nvars>>

\* result.filter_topology_by_score(&topology, threshold)
FilterCall ==
    /\ filtered = <<>>
    /\ filtered' = <<filter_topology_by_score(result, topology, threshold)>>
    /\ UNCHANGED <<resolver, mixCalls, rebuilt, presence, converted, threshold,
                   pvars, hvars, nvars>>

\* No Topology is used: no accessor, conversion or filter is called.
NoPresence == MixNodePresence(1, "nymtech.net:1234")
NoThreshold == [kind |-> "neg_inf", num |-> 0, den |-> 1]
NoTopologyUse ==
    /\ resolver = "up"
    /\ mixCalls = <<>>
    /\ rebuilt = <<>>
    /\ presence = NoPresence
    /\ converted = <<>>
    /\ threshold = NoThreshold
    /\ filtered = <<>>

\* ---------------------------------------------------------------- start
\* The future of presence::Notifier::run, a task that runs for the life of
\* the process.
presenceFuture == "pending"

\* ServiceProvider::start from block_on: join3 waits for all three root
\* futures; the assertion looks at the JoinHandles' results (Err only when a
\* task panicked), not at what the listeners returned; then start returns
\* Ok(()).
StartStatus ==
    IF /\ mixListener \in {"bind_err", "accept_err"}
       /\ clientListener \in {"bind_err", "accept_err"}
       /\ presenceFuture # "pending"
    THEN "returned_ok"
    ELSE "blocked_on_join"

\* ServiceProvider::new and start up to the spawn of the root tasks, with
\* mp mixnet peers and cp clients about to connect.
ProviderStart(mp, cp) ==
    /\ mixListener = "unbound"
    /\ clientListener = "unbound"
    /\ mixConn = [c \in MixConns |-> MixConnInit]
    /\ cliConn = [c \in CliConns |-> CliConnInit]
    /\ ledger = LedgerNew
    /\ mailbox = [d \in Clients |-> {}]
    /\ mixPeers = mp
    /\ cliPeers = cp
    /\ ledgerLock = NoHolder
    /\ snapshots = <<>>

\* The provider: both listeners and their connection tasks, with one mixnet
\* peer and two clients connecting.
Init ==
    /\ ProviderStart(1, 2)
    /\ topology = NoTopology /\ NoHealthCheck /\ NoTopologyUse

Next ==
    \/ MixBind
    \/ MixAccept
    \/ \E c \in MixConns : MixRead(c)
    \/ \E c \in MixConns : MixWriteAck(c)
    \/ ClientBind
    \/ ClientAccept
    \/ \E c \in CliConns : ClientRead(c)
    \/ \E c \in CliConns : ClientInsert(c)
    \/ \E c \in CliConns : ClientRetrieve(c)
    \/ \E c \in CliConns : ClientRespond(c)

Spec == Init /\ [][Next]_vars

\* The mixnet ingress alone: its listener and its connection tasks.
InitMix ==
    /\ ProviderStart(Cardinality(MixConns), 0)
    /\ topology = NoTopology /\ NoHealthCheck /\ NoTopologyUse

NextMix ==
    \/ MixBind
    \/ MixAccept
    \/ \E c \in MixConns : MixRead(c)
    \/ \E c \in MixConns : MixWriteAck(c)

SpecMix == InitMix /\ [][NextMix]_vars

\* The health check: one call of calculate, on any topology, with few
\* iterations against a network that treats each packet on its own, or with
\* the iterations at the limit against one that treats them all alike.
InitHC ==
    /\ ProviderStart(0, 0)
    /\ NoTopologyUse
    /\ topology \in {t \in Topologies : Len(t.coco_nodes) = MaxCocoNodes}
    /\ iterations \in (0..MaxIterations) \cup {IterationLimit, IterationLimit + 1}
    /\ net \in {"any", "up", "down", "lossy"}
    /\ (net = "any") = (iterations <= MaxIterations)
    /\ hcPc = "begin"
    /\ all_paths = NoPaths
    /\ score_map = NoScores
    /\ statuses = NoStatuses
    /\ hcI = 0
    /\ hcP = 1
    /\ result = {}

NextHC == HcBegin \/ HcScoreMap \/ HcSend \/ HcResolve

SpecHC == InitHC /\ [][NextHC]_vars

\* The health check while the name service comes and goes: one call of
\* calculate with few iterations, on any topology.
InitHCResolver ==
    /\ ProviderStart(0, 0)
    /\ topology \in {t \in Topologies : Len(t.coco_nodes) = MaxCocoNodes}
    /\ iterations \in 0..MaxIterations
    /\ net = "any"
    /\ hcPc = "begin"
    /\ all_paths = NoPaths
    /\ score_map = NoScores
    /\ statuses = NoStatuses
    /\ hcI = 0
    /\ hcP = 1
    /\ result = {}
    /\ resolver \in {"up", "outage"}
    /\ mixCalls = <<>>
    /\ rebuilt = <<>>
    /\ presence = NoPresence
    /\ converted = <<>>
    /\ threshold = NoThreshold
    /\ filtered = <<>>

NextHCResolver == ResolverChange \/ HcBegin \/ HcScoreMap \/ HcSend \/ HcResolve

SpecHCResolver == InitHCResolver /\ [][NextHCResolver]_vars

\* The client ingress alone, on a provider that was restarted: the ledger is
\* new, the mailbox of the first client holds the message files stored before,
\* and every client connection slot is taken in turn.
StoredEarlier(n) == {<<0, k>> : k \in 1..n}
InitClient ==
    /\ mixListener = "listening"
    /\ clientListener = "listening"
    /\ mixConn = [c \in MixConns |-> MixConnInit]
    /\ cliConn = [c \in CliConns |-> CliConnInit]
    /\ ledger = LedgerNew
    /\ \E n \in 0..(MESSAGE_RETRIEVAL_LIMIT + MaxExtraStored) :
          mailbox = [d \in Clients |-> IF d = 1 THEN StoredEarlier(n) ELSE {}]
    /\ mixPeers = 0
    /\ cliPeers = Cardinality(CliConns)
    /\ ledgerLock = NoHolder
    /\ snapshots = <<>>
    /\ topology = NoTopology /\ NoHealthCheck /\ NoTopologyUse

NextClient ==
    \/ ClientAccept
    \/ \E c \in CliConns : ClientRead(c)
    \/ \E c \in CliConns : ClientInsert(c)
    \/ \E c \in CliConns : ClientRetrieve(c)
    \/ \E c \in CliConns : ClientRespond(c)

SpecClient == InitClient /\ [][NextClient]_vars

\* The accessors of one Topology value, called while the name service comes
\* and goes, and the topology rebuilt from what they return.
InitAccessor ==
    /\ ProviderStart(0, 0)
    /\ NoHealthCheck
    /\ topology \in Topologies
    /\ resolver \in {"up", "outage"}
    /\ mixCalls = <<>>
    /\ rebuilt = <<>>
    /\ presence = NoPresence
    /\ converted = <<>>
    /\ threshold = NoThreshold
    /\ filtered = <<>>

NextAccessor == ResolverChange \/ TopoGetMixNodes \/ TopoRebuild

SpecAccessor == InitAccessor /\ [][NextAccessor]_vars

\* The conversion of one MixNodePresence: any record a directory can serve,
\* its host an IP literal, a name that resolves, a name that resolves to no
\* address or a name that does not resolve.
WireHosts ==
    ProbedHosts \cup {"10.0.0.1:1234", "noaddress.example:1234"}
MixNodePresences ==
    [host : WireHosts, pub_key : {MixPubKey(k) : k \in 1..MaxMixNodes},
     layer : 1..NumLayers, last_seen : 1..MaxMixNodes, version : {"0.1.0", "0.2.0"}]

InitTryInto ==
    /\ ProviderStart(0, 0)
    /\ NoHealthCheck
    /\ topology = NoTopology
    /\ resolver \in {"up", "outage"}
    /\ mixCalls = <<>>
    /\ rebuilt = <<>>
    /\ presence \in MixNodePresences
    /\ converted = <<>>
    /\ threshold = NoThreshold
    /\ filtered = <<>>

NextTryInto == ResolverChange \/ TryIntoCall

SpecTryInto == InitTryInto /\ [][NextTryInto]_vars

\* One call of filter_topology_by_score: any topology, any result, any
\* threshold.
InitFilter ==
    /\ ProviderStart(0, 0)
    /\ topology \in Topologies
    /\ iterations = 0
    /\ net = "up"
    /\ hcPc = "idle"
    /\ all_paths = NoPaths
    /\ score_map = NoScores
    /\ statuses = NoStatuses
    /\ hcI = 0
    /\ hcP = 1
    /\ result \in ScoredResults(topology)
    /\ resolver = "up"
    /\ mixCalls = <<>>
    /\ rebuilt = <<>>
    /\ presence = NoPresence
    /\ converted = <<>>
    /\ threshold \in Thresholds
    /\ filtered = <<>>

NextFilter == FilterCall

SpecFilter == InitFilter /\ [][NextFilter]_vars

\* The client ingress and the presence notifier on the one ledger: every
\* client connection slot is taken in turn while the notifier ticks, and the
\* mailbox of the first client holds one message.
InitPresence ==
    /\ mixListener = "listening"
    /\ clientListener = "listening"
    /\ mixConn = [c \in MixConns |-> MixConnInit]
    /\ cliConn = [c \in CliConns |-> CliConnInit]
    /\ ledger = LedgerNew
    /\ mailbox = [d \in Clients |-> IF d = 1 THEN StoredEarlier(1) ELSE {}]
    /\ mixPeers = 0
    /\ cliPeers = Cardinality(CliConns)
    /\ ledgerLock = NoHolder
    /\ snapshots = <<>>
    /\ topology = NoTopology /\ NoHealthCheck /\ NoTopologyUse

NextPresence ==
    \/ ClientAccept
    \/ \E c \in CliConns : ClientRead(c)
    \/ \E c \in CliConns : ClientInsert(c)
    \/ \E c \in CliConns : ClientRetrieve(c)
    \/ \E c \in CliConns : ClientRespond(c)
    \/ NotifierTick

SpecPresence == InitPresence /\ [][NextPresence]_vars

\* ------------------------------------------------------------ properties

\* C1: when storing the processed payload fails, the connection is closed:
\* the task has ended, so no acknowledgement is written for the packet and no
\* further packet is read.
C1_StoreErrorClosesConnection ==
    \A c \in MixConns : mixConn[c].last = "store_err" => mixConn[c].pc = "done"

\* C2: a bind failure of either listener terminates the process with a
\* non-zero status.
C2_BindFailureIsFatal ==
    (mixListener = "bind_err" \/ clientListener = "bind_err")
        => StartStatus = "exited_nonzero"

\* C3: an accept error does not end a listener: neither listener's future
\* ever completes with an accept error.
C3_AcceptErrorLoopContinues ==
    mixListener # "accept_err" /\ clientListener # "accept_err"

\* C4: the k-th packet handed to Sphinx processing on a connection is bytes
\* [k*PACKET_SIZE, (k+1)*PACKET_SIZE) of the connection's stream.
C4_PacketIsExactSlice ==
    \A c \in MixConns :
        mixConn[c].nproc >= 1 => mixConn[c].buf = StreamPacket(mixConn[c].nproc - 1)

\* C5: a Retrieve whose response could not be written to the client leaves
\* its messages in the mailbox.
C5_DeletedOnlyOnSuccessfulSend ==
    \A c \in CliConns :
        (/\ cliConn[c].pc = "done"
         /\ cliConn[c].response[1] = "messages"
         /\ cliConn[c].wrote = "err")
            => cliConn[c].response[3] \subseteq mailbox[cliConn[c].response[2]]

\* C6: a read error, a Sphinx processing error or an acknowledgement write
\* error on a mixnet connection ends that connection's task without an
\* acknowledgement (and, for a processing error, without a store), and
\* leaves the listener and every other connection's task as they were.
ConnErrors == {"read_err", "unwrap_err", "ack_err"}

C6_ErrorEndsOnlyThatConnection ==
    [][\A c \in MixConns :
          (mixConn'[c] # mixConn[c] /\ mixConn'[c].last \in ConnErrors)
              => /\ mixConn'[c].pc = "done"
                 /\ mixConn'[c].acks = mixConn[c].acks
                 /\ mixConn'[c].last = "unwrap_err" => mailbox' = mailbox
                 /\ mixListener' = mixListener
                 /\ \A d \in MixConns \ {c} : mixConn'[d] = mixConn[d]]_vars

\* A connection ended by a processing error while the listener listens and
\* another connection has had a packet stored and acknowledged.
C6_Witness ==
    \E c, d \in MixConns :
        /\ c # d
        /\ mixConn[c].pc = "done" /\ mixConn[c].last = "unwrap_err"
        /\ mixConn[d].pc = "read" /\ mixConn[d].last = "acked"
        /\ mixListener = "listening"

\* The step of the send loop in which send_test_packet(path, i) failed and
\* the path was classified Malformed.
MalformedSend ==
    /\ hcPc = "send"
    /\ <<hcI', hcP'>> # <<hcI, hcP>>
    /\ statuses'[PathKey(all_paths.paths[hcP], hcI)] = "Malformed"

\* The number of places node n has on a path.
Occurrences(n, path) == Cardinality({j \in 1..Len(path) : path[j] = n})

\* The places node n has among the hops of the Healthy path keys.
HealthyHopsOf(n) ==
    {h \in UNION {{<<k, j>> : j \in 1..Len(k[1])} :
                     k \in {x \in DOMAIN statuses : statuses[x] = "Healthy"}} :
        h[1][1][h[2]] = n}

\* C7 (as claimed): when send_test_packet(path, i) fails and the path is
\* classified Malformed, the sent counter of no node on the path is
\* incremented for that (path, i).
C7_MalformedNotCountedAsSent ==
    [][MalformedSend =>
          \A n \in SeqRange(all_paths.paths[hcP]) :
              score_map'[n].sent = score_map[n].sent]_vars

\* C7 (amended): a Malformed path is counted in sent like any other, and
\* never in received: the failed send increments sent once for every place
\* of a node on the path, the path's status stays Malformed, and the received
\* of a node in the result is the number of its places on the Healthy paths.
C7_MalformedCountedAsSentOnly ==
    [][/\ MalformedSend =>
             \A n \in DOMAIN score_map :
                 /\ score_map'[n].sent
                       = score_map[n].sent + Occurrences(n, all_paths.paths[hcP])
                 /\ score_map'[n].received = score_map[n].received
       /\ (hcPc = "resolve" /\ hcPc' = "done") =>
             /\ \A k \in DOMAIN statuses :
                   statuses[k] = "Malformed" => statuses'[k] = "Malformed"
             /\ \A s \in result' :
                   /\ s.received = Cardinality(HealthyHopsOf(s.pub_key)')
                   /\ s.sent = score_map[s.pub_key].sent]_vars

\* A finished run with a Malformed path, whose nodes all have sent > 0.
C7_Witness ==
    /\ hcPc = "done"
    /\ all_paths.ok
    /\ \E k \in DOMAIN statuses :
          /\ statuses[k] = "Malformed"
          /\ \A j \in 1..Len(k[1]) : score_map[k[1][j]].sent > 0

\* C8: every score of a result has 0 <= received <= sent.
C8_ReceivedAtMostSent ==
    \A s \in result : 0 <= s.received /\ s.received <= s.sent

\* A result with a score that counts some, not all, of its packets received.
C8_Witness ==
    /\ hcPc = "done"
    /\ \E s \in result : 0 < s.received /\ s.received < s.sent

\* C9: with iterations > 255 calculate fails before all_paths is evaluated
\* and before a test packet is sent, and returns nothing; with iterations
\* <= 255 it does not fail, and once it is done it has sent a test packet
\* down every path in each of its iterations.
C9_IterationsPrecondition ==
    /\ iterations >= 256
          => /\ hcPc \in {"idle", "begin", "panicked"}
             /\ ~all_paths.evaluated
             /\ statuses = NoStatuses
             /\ result = {}
    /\ iterations <= 255
          => /\ hcPc # "panicked"
             /\ (hcPc = "done" /\ all_paths.ok)
                   => \A j \in 1..Len(all_paths.paths), i \in 0..(iterations - 1) :
                         <<all_paths.paths[j], i>> \in DOMAIN statuses

\* The run with iterations = 256, rejected.
C9_Witness == iterations = 256 /\ hcPc = "panicked"

\* C10: when all_paths() returned an error, no test packet was sent and the
\* result is one all-zero score for each mix node whose host resolves and for
\* each provider.
C10_ZeroScoreOnPathError ==
    (all_paths.evaluated /\ ~all_paths.ok)
        => /\ hcPc = "done"
           /\ statuses = NoStatuses
           /\ result =
                {[pub_key |-> <<r.pub_key[2], r.pub_key[3]>>, sent |-> 0, received |-> 0] :
                    r \in {topology.mix_nodes[j] : j \in
                              {x \in 1..Len(topology.mix_nodes) :
                                  LET r == to_socket_addrs(topology.mix_nodes[x].host)
                                  IN r.ok /\ r.addrs # <<>>}}
                          \cup SeqRange(topology.mix_provider_nodes)}

\* A zero score over a mix node and a provider, one layer being empty.
C10_Witness ==
    /\ hcPc = "done"
    /\ all_paths.evaluated /\ ~all_paths.ok
    /\ topology.mix_provider_nodes # <<>>
    /\ \E s \in result : s.pub_key[1] = "mix"

\* C11: filter_topology_by_score returns a topology whose mix nodes and
\* provider nodes are, in their order, the nodes the input's accessors return
\* that have an entry in the result with a score strictly above the threshold
\* (an equal score or no entry drops the node), and whose coco nodes are the
\* input's; with the threshold +infinity it has no mix or provider node.
C11_FilterKeepsScoresAboveThreshold ==
    filtered # <<>> =>
        LET out == filtered[1]
            Above(s) ==
                \/ threshold.kind = "neg_inf"
                \/ /\ threshold.kind = "finite"
                   /\ \/ s.sent > 0 /\ s.received * threshold.den > threshold.num * s.sent
                      \/ s.sent = 0 /\ 0 > threshold.num
            Scored(n) ==
                \E s \in result :
                    s.pub_key = <<n.pub_key[2], n.pub_key[3]>> /\ Above(s)
        IN /\ get_mix_nodes(out) = SelectSeq(get_mix_nodes(topology), Scored)
           /\ get_mix_provider_nodes(out)
                 = SelectSeq(get_mix_provider_nodes(topology), Scored)
           /\ out.coco_nodes = topology.coco_nodes
           /\ get_coco_nodes(out) = get_coco_nodes(topology)
           /\ threshold.kind = "pos_inf"
                 => out.mix_nodes = <<>> /\ out.mix_provider_nodes = <<>>

\* A filter at threshold 1/2 that kept a mix node with score 1, dropped one
\* with score 1/2 and dropped one without a score, the topology having a coco
\* node.
C11_Witness ==
    /\ filtered # <<>>
    /\ threshold.kind = "finite"
    /\ topology.coco_nodes # <<>>
    /\ Len(filtered[1].mix_nodes) = 1
    /\ \E s \in result :
          /\ s.pub_key = <<filtered[1].mix_nodes[1].pub_key[2],
                           filtered[1].mix_nodes[1].pub_key[3]>>
          /\ s.sent = 1 /\ s.received = 1
    /\ \E i, j \in 1..Len(get_mix_nodes(topology)) :
          /\ \E s \in result :
                /\ s.pub_key = get_pub_key_bytes(get_mix_nodes(topology)[i].pub_key)
                /\ s.sent = 2 /\ s.received = 1
          /\ \A s \in result :
                s.pub_key # get_pub_key_bytes(get_mix_nodes(topology)[j].pub_key)

\* C12: wire to model to wire (new_from_nodes over the accessors) preserves
\* every field of every record: the coco and provider records come back as
\* they were, and every mix record that comes back is a record of the input,
\* its host the string originally supplied.
C12_RoundTripPreservesRecords ==
    rebuilt # <<>> =>
        /\ rebuilt[1].coco_nodes = topology.coco_nodes
        /\ rebuilt[1].mix_provider_nodes = topology.mix_provider_nodes
        /\ \A j \in 1..Len(rebuilt[1].mix_nodes) :
              \E i \in 1..Len(topology.mix_nodes) :
                  rebuilt[1].mix_nodes[j] = topology.mix_nodes[i]

\* C13: converting a MixNodePresence to a MixNode resolves its host, and
\* fails exactly when the resolution errors or yields no address; on success
\* the node's host is the first resolved address and pub_key, layer,
\* last_seen and version are the record's. So the record of the unresolvable
\* foomp.foomp.foomp:1234 fails, and that of nymtech.net:1234 converts while
\* the name resolves.
C13_TryIntoResolvesHost ==
    [][(converted = <<>> /\ converted' # <<>>) =>
          LET r == to_socket_addrs(presence.host)
              out == converted'[1]
          IN /\ out.ok = (r.ok /\ r.addrs # <<>>)
             /\ out.ok =>
                   /\ out.node.host = r.addrs[1]
                   /\ out.node.pub_key = presence.pub_key
                   /\ out.node.layer = presence.layer
                   /\ out.node.last_seen = presence.last_seen
                   /\ out.node.version = presence.version
                   /\ DOMAIN out.node
                         = {"host", "pub_key", "layer", "last_seen", "version"}
             /\ presence.host = "foomp.foomp.foomp:1234" => ~out.ok
             /\ (presence.host = "nymtech.net:1234" /\ resolver = "up")
                   => out.ok /\ out.node.host = <<"SocketAddr", "93.184.216.34:1234">>
             /\ (presence.host = "nymtech.net:1234" /\ resolver = "outage") => ~out.ok
             /\ presence' = presence]_vars

\* A record under a name with two addresses, converted to a node whose host
\* is the first of them.
C13_Witness ==
    /\ converted # <<>>
    /\ converted[1].ok
    /\ presence.host = "nymtech.net:1234"
    /\ converted[1].node.host = <<"SocketAddr", "93.184.216.34:1234">>
    /\ converted[1].node.layer = presence.layer
    /\ presence.last_seen # 1

\* C14: a call of the mix-node accessor returns, in the wire sequence's
\* order, the nodes of exactly the records whose host resolves at the call,
\* drops the others, and leaves the Topology value as it was; so a record
\* dropped by one call is returned by a later call in which its host
\* resolves.
C14_AccessorDropsUnresolvedOnly ==
    [][mixCalls' # mixCalls =>
          LET Resolves(p) ==
                  LET r == to_socket_addrs(p.host) IN r.ok /\ r.addrs # <<>>
              kept == SelectSeq(topology.mix_nodes, Resolves)
              nodes == mixCalls'[Len(mixCalls')].nodes
          IN /\ Len(nodes) = Len(kept)
             /\ \A j \in 1..Len(kept) :
                   /\ nodes[j].host = to_socket_addrs(kept[j].host).addrs[1]
                   /\ nodes[j].pub_key = kept[j].pub_key
                   /\ nodes[j].layer = kept[j].layer
                   /\ nodes[j].last_seen = kept[j].last_seen
                   /\ nodes[j].version = kept[j].version
             /\ topology' = topology
             /\ resolver = "up" =>
                   \A i \in 1..Len(topology.mix_nodes) :
                       topology.mix_nodes[i].host = "nymtech.net:1234"
                           => \E j \in 1..Len(nodes) :
                                 nodes[j].pub_key = topology.mix_nodes[i].pub_key]_vars

\* Two calls on a topology of three records, the second of which never
\* resolves: the first call, during an outage, returned nothing; the second
\* returned the first and the third record's nodes, in that order.
C14_Witness ==
    /\ Len(mixCalls) = 2
    /\ Len(topology.mix_nodes) = 3
    /\ topology.mix_nodes[2].host = "foomp.foomp.foomp:1234"
    /\ mixCalls[1].resolver = "outage" /\ mixCalls[1].nodes = <<>>
    /\ mixCalls[2].resolver = "up"
    /\ Len(mixCalls[2].nodes) = 2
    /\ mixCalls[2].nodes[1].pub_key = topology.mix_nodes[1].pub_key
    /\ mixCalls[2].nodes[2].pub_key = topology.mix_nodes[3].pub_key

\* The destinations inserted into the ledger so far: those of the Register
\* requests that were processed.
Inserted ==
    {cl \in Clients :
        \E c \in CliConns :
            /\ cliConn[c].pc \in {"respond", "done"}
            /\ cliConn[c].request = <<"register", cl>>}

\* C15: after any sequence of registrations that inserted k distinct
\* destinations, current_clients(ledger) has exactly k entries, and their
\* pub_keys are the base64url encodings of the inserted destinations, each of
\* them once.
C15_CurrentClientsOnePerDestination ==
    LET entries == current_clients(ledger)
    IN /\ Cardinality(DOMAIN entries) = Cardinality(Inserted)
       /\ {entries[e].pub_key : e \in DOMAIN entries}
             = {<<"base64url", cl>> : cl \in Inserted}
       /\ \A e \in DOMAIN entries : DOMAIN entries[e] = {"pub_key"}

\* Two registrations of different clients, both processed: two entries.
C15_Witness ==
    /\ Cardinality(Inserted) >= 2
    /\ Cardinality(DOMAIN current_clients(ledger)) = Cardinality(Inserted)
    /\ \E c, d \in CliConns :
          /\ c # d
          /\ cliConn[c].pc = "done" /\ cliConn[c].request[1] = "register"
          /\ cliConn[d].pc = "done" /\ cliConn[d].request[1] = "register"

\* The step in which connection c's task has its request processed: past
\* the read and, for a Register, past the insert.
Processes(c) ==
    /\ cliConn[c].pc \in {"read", "insert"}
    /\ cliConn'[c].pc \notin {"read", "insert"}

\* C16: a Register is answered with the client's AuthToken and leaves the
\* token mapped to the client; a Register for a client key that a connection
\* registered before, whatever was processed in between, is answered with the
\* same AuthToken as that one and leaves the ledger as it found it.
C16_RegisterIdempotent ==
    [][\A c \in CliConns :
          (Processes(c) /\ cliConn'[c].request[1] = "register") =>
              /\ cliConn'[c].response[1] = "token"
              /\ ledger'[cliConn'[c].response[2]] = cliConn'[c].request[2]
              /\ \A d \in CliConns \ {c} :
                    (/\ cliConn[d].pc \in {"respond", "done"}
                     /\ cliConn[d].request = cliConn'[c].request)
                        => /\ cliConn'[c].response = cliConn[d].response
                           /\ ledger' = ledger]_vars

\* Three connections processed in turn: a Register, a Register of another
\* client, and the first Register again, answered as the first time.
C16_Witness ==
    /\ \A c \in CliConns : cliConn[c].pc = "done"
    /\ cliConn[1].request[1] = "register"
    /\ cliConn[2].request[1] = "register"
    /\ cliConn[2].request # cliConn[1].request
    /\ cliConn[3].request = cliConn[1].request
    /\ cliConn[3].response = cliConn[1].response
    /\ ledger[cliConn[1].response[2]] = cliConn[1].request[2]

\* C17: a Retrieve whose token is not in the ledger is answered with the
\* fixed error payload, returns and deletes no message and leaves the ledger
\* as it was; the payload is what is written to the socket, after which the
\* connection's task ends.
C17_UnknownTokenRetrieveRejected ==
    [][\A c \in CliConns :
          /\ (/\ Processes(c)
              /\ cliConn'[c].request[1] = "retrieve"
              /\ ledger[cliConn'[c].request[2]] = NoDest)
                => /\ cliConn'[c].pc = "respond"
                   /\ cliConn'[c].response = <<"bad foomp">>
                   /\ mailbox' = mailbox
                   /\ ledger' = ledger
          /\ (cliConn[c].pc = "respond" /\ cliConn'[c] # cliConn[c])
                => /\ cliConn'[c].pc = "done"
                   /\ cliConn'[c].response = cliConn[c].response
                   /\ cliConn'[c].wrote # "none"]_vars

\* A Retrieve with the token of a client that never registered, its mailbox
\* holding messages: answered with the error payload, the messages kept.
C17_Witness ==
    \E c \in CliConns :
        /\ cliConn[c].pc = "done"
        /\ cliConn[c].request = <<"retrieve", <<"token", 1>>>>
        /\ cliConn[c].response = <<"bad foomp">>
        /\ cliConn[c].wrote = "ok"
        /\ ledger[<<"token", 1>>] = NoDest
        /\ mailbox[1] # {}

\* C18: a Retrieve lists at most 5 files of the client's mailbox, and as many
\* as the mailbox has when it has fewer; it returns no message but the listed
\* ones, so at most 5, and all of them when no other task took one in
\* between; what it returns it takes out of the mailbox. So with 6 messages
\* stored, one Retrieve returns exactly 5 and the next returns the one that
\* remains.
C18_RetrievalLimit ==
    [][\A c \in CliConns :
          /\ (cliConn[c].pc = "read" /\ cliConn'[c].pc = "retrieve") =>
                LET d == ledger[cliConn'[c].request[2]]
                    stored == Cardinality(mailbox[d])
                    listed == cliConn'[c].listed
                IN /\ listed \subseteq mailbox[d]
                   /\ Cardinality(listed) = IF stored < 5 THEN stored ELSE 5
                   /\ stored = 6 => Cardinality(listed) = 5
                   /\ stored = 1 => listed = mailbox[d]
                   /\ mailbox' = mailbox
          /\ (cliConn[c].pc = "retrieve" /\ cliConn'[c] # cliConn[c]) =>
                LET d == ledger[cliConn[c].request[2]]
                    inTime == cliConn[c].listed \subseteq mailbox[d]
                    returned == IF cliConn'[c].response[1] = "messages"
                                THEN cliConn'[c].response[3] ELSE {}
                IN /\ cliConn'[c].pc = "respond"
                   /\ returned \subseteq cliConn[c].listed
                   /\ Cardinality(returned) <= 5
                   /\ mailbox' = [mailbox EXCEPT ![d] = @ \ returned]
                   /\ inTime => /\ cliConn'[c].response[1] = "messages"
                                /\ cliConn'[c].response[2] = d
                                /\ returned = cliConn[c].listed]_vars

\* Six messages stored for a client that registers and retrieves twice: one
\* Retrieve was answered with five of them, the other with the sixth.
C18_Witness ==
    \E c, d \in CliConns :
        /\ cliConn[c].pc = "done" /\ cliConn[c].response[1] = "messages"
        /\ cliConn[d].pc = "done" /\ cliConn[d].response[1] = "messages"
        /\ Cardinality(cliConn[c].response[3]) = 5
        /\ Cardinality(cliConn[d].response[3]) = 1
        /\ cliConn[c].response[3] \cup cliConn[d].response[3]
              = {<<0, k>> : k \in 1..6}
        /\ mailbox[1] = {}

\* C19: two Retrieve requests with the same valid token, each handled by its
\* own connection's task, are answered with disjoint sets of messages,
\* however the two tasks interleave.
C19_RetrievesDisjoint ==
    \A c, d \in CliConns :
        (/\ c # d
         /\ cliConn[c].request[1] = "retrieve"
         /\ cliConn[d].request = cliConn[c].request
         /\ cliConn[c].response[1] = "messages"
         /\ cliConn[d].response[1] = "messages")
            => cliConn[c].response[3] \cap cliConn[d].response[3] = {}

\* Seven messages stored and two Retrieves whose tasks interleaved: both
\* listed before either read, so one was answered with five messages and the
\* other with the one of its listing that was still there, one staying
\* behind.
C19_Witness ==
    \E c, d \in CliConns :
        /\ c # d
        /\ cliConn[c].pc = "done" /\ cliConn[d].pc = "done"
        /\ cliConn[c].request[1] = "retrieve"
        /\ cliConn[d].request = cliConn[c].request
        /\ cliConn[c].response[1] = "messages"
        /\ cliConn[d].response[1] = "messages"
        /\ Cardinality(cliConn[c].response[3]) = 5
        /\ Cardinality(cliConn[d].response[3]) = 1
        /\ Cardinality(mailbox[1]) = 1
        /\ cliConn[c].response[3] \cap cliConn[d].response[3] = {}

\* C20: on one mixnet connection the packets are processed in the order they
\* are read, one at a time: a read takes the bytes that follow those of the
\* read before, and is made only when every packet read before has been
\* acknowledged; the store of a packet is that of the packet last read, after
\* the stores of all the packets before it; an acknowledgement is that of the
\* packet last read. So the task is never ahead of its acknowledgements by
\* more than the packet it is processing.
C20_ProcessedInReceiptOrder ==
    [][\A c \in MixConns :
          LET FilesOf(mb) == {f \in UNION {mb[d] : d \in Clients} : f[1] = c}
          IN /\ mixConn'[c].nproc # mixConn[c].nproc =>
                   /\ mixConn[c].pc = "read"
                   /\ mixConn'[c].nproc = mixConn[c].nproc + 1
                   /\ mixConn[c].acks = mixConn[c].nproc
                   /\ mixConn'[c].rpos > mixConn[c].rpos
                   /\ mixConn'[c].buf[1] = mixConn[c].rpos + 1
                   /\ mixConn'[c].acks = mixConn[c].acks
             /\ FilesOf(mailbox') # FilesOf(mailbox) =>
                   /\ FilesOf(mailbox') = FilesOf(mailbox) \cup {<<c, mixConn'[c].nproc>>}
                   /\ \A f \in FilesOf(mailbox) : f[2] < mixConn'[c].nproc
                   /\ mixConn'[c].acks = mixConn'[c].nproc - 1
                   /\ mixConn'[c].pc = "ack"
             /\ mixConn'[c].acks # mixConn[c].acks =>
                   /\ mixConn[c].pc = "ack"
                   /\ mixConn'[c].acks = mixConn[c].nproc
                   /\ mixConn'[c].nproc = mixConn[c].nproc
                   /\ mixConn'[c].pc = "read"
             /\ mixConn'[c].pc = "read" => mixConn'[c].acks = mixConn'[c].nproc
             /\ mixConn'[c].acks \in {mixConn'[c].nproc - 1, mixConn'[c].nproc}]_vars

\* A connection on which two packets were read, each stored and acknowledged
\* before the next read, while the other connection has a packet stored and
\* not yet acknowledged.
C20_Witness ==
    \E c, d \in MixConns :
        /\ c # d
        /\ mixConn[c].nproc = 2 /\ mixConn[c].acks = 2 /\ mixConn[c].pc = "read"
        /\ \E x, y \in Clients : <<c, 1>> \in mailbox[x] /\ <<c, 2>> \in mailbox[y]
        /\ mixConn[d].nproc = 1 /\ mixConn[d].acks = 0 /\ mixConn[d].last = "stored"


\* C21: over registrations, retrievals and presence snapshots, a token that
\* is in the ledger stays in it, mapped to the destination it was inserted
\* with: no step removes an item or maps its token to another destination,
\* and the set of tokens in the ledger only grows.
C21_LedgerEntriesNeverRemoved ==
    [][/\ \A t \in Tokens : has_token(ledger, t) => ledger'[t] = ledger[t]
       /\ {t \in Tokens : has_token(ledger, t)}
             \subseteq {t \in Tokens : has_token(ledger', t)}]_vars

\* A registration, a snapshot with that one client, a second client's
\* registration and the first client's retrieval of its message: both tokens
\* are in the ledger, each mapped to its own client.
C21_Witness ==
    /\ Len(snapshots) >= 1
    /\ DOMAIN snapshots[1].registered_clients = {TokenOf(1)}
    /\ ledger[TokenOf(1)] = 1
    /\ ledger[TokenOf(2)] = 2
    /\ \E c \in CliConns :
          /\ cliConn[c].pc = "done"
          /\ cliConn[c].request = <<"retrieve", TokenOf(1)>>
          /\ cliConn[c].response = <<"messages", 1, StoredEarlier(1)>>


\* C22: in calculate every lookup of a path's node in score_map finds an
\* entry, so the send loop never fails; and after the send phase every node
\* of every path has an entry whose sent is iterations times the number of
\* the enumerated paths that contain the node.
C22_SentCountsAndLookupsSucceed ==
    /\ hcPc # "lookup_panicked"
    /\ hcPc = "resolve" =>
          /\ \A p \in 1..Len(all_paths.paths) :
                LookupsSucceed(score_map, all_paths.paths[p])
          /\ \A n \in DOMAIN score_map :
                score_map[n].sent
                    = iterations * Cardinality({p \in 1..Len(all_paths.paths) :
                                                   n \in SeqRange(all_paths.paths[p])})


\* C23: the task of an accepted client connection reads once and has at most
\* one request; past its read it never reads again and its request stays
\* what it read; it writes once, the request's response or, when the peer
\* had closed, the read failed or the request could not be processed, the
\* fixed error payload; with the write the socket is shut down and the task
\* has ended: nothing more is read or written on the connection.
C23_OneReadOneResponse ==
    [][\A c \in CliConns :
          /\ cliConn[c].pc \in {"insert", "retrieve", "respond", "done"}
                => /\ cliConn'[c].pc # "read"
                   /\ cliConn'[c].request = cliConn[c].request
          /\ cliConn'[c].wrote # cliConn[c].wrote
                => /\ cliConn[c].pc = "respond" /\ cliConn'[c].pc = "done"
                   /\ cliConn[c].wrote = "none"
                   /\ cliConn'[c].response = cliConn[c].response
                   /\ cliConn[c].request[1] \in {"unread", "malformed"}
                         => cliConn[c].response = BadFoomp
                   /\ cliConn[c].request[1] = "register"
                         => cliConn[c].response = <<"token", TokenOf(cliConn[c].request[2])>>
                   /\ cliConn[c].request[1] = "retrieve"
                         => \/ cliConn[c].response = BadFoomp
                            \/ cliConn[c].response[1] = "messages"
          /\ (cliConn[c].pc = "respond" /\ cliConn'[c] # cliConn[c])
                => cliConn'[c].wrote # "none"
          /\ cliConn[c].pc = "done" => cliConn'[c] = cliConn[c]]_vars

\* Three connections, all answered once and ended: one whose peer closed
\* before sending, one with bytes that are no request, one with a Register.
C23_Witness ==
    /\ \A c \in CliConns : cliConn[c].pc = "done" /\ cliConn[c].wrote = "ok"
    /\ cliConn[1].request = <<"unread">> /\ cliConn[1].response = BadFoomp
    /\ cliConn[2].request = <<"malformed">> /\ cliConn[2].response = BadFoomp
    /\ cliConn[3].request[1] = "register" /\ cliConn[3].response[1] = "token"


\* The clients a snapshot lists, by their encoded keys.
SnapshotKeys(snap) ==
    {snap.registered_clients[t].pub_key : t \in DOMAIN snap.registered_clients}

\* C24: the notifier and the client tasks use the one ledger under its mutex.
\* At most one task is within an insert, and it holds the mutex; a snapshot
\* is taken only while no insert is under way and lists exactly the clients
\* whose Register was processed before it, so a client once inserted is in
\* every later snapshot; taking a snapshot leaves the ledger as it was.
C24_SnapshotsSeeWholeInserts ==
    [][/\ \A c \in CliConns : (cliConn[c].pc = "insert") = (ledgerLock = c)
       /\ snapshots' # snapshots =>
             /\ \A c \in CliConns : cliConn[c].pc # "insert"
             /\ Len(snapshots') = Len(snapshots) + 1
             /\ SnapshotKeys(snapshots'[Len(snapshots')])
                   = {Base64Url(cl) : cl \in Inserted}
             /\ \A k \in 1..Len(snapshots) :
                   /\ snapshots'[k] = snapshots[k]
                   /\ SnapshotKeys(snapshots[k])
                         \subseteq SnapshotKeys(snapshots'[Len(snapshots')])
             /\ ledger' = ledger]_vars

\* A snapshot of the new ledger, a Register, a snapshot that lists its
\* client, and then a second client's Register under way, the mutex held.
C24_Witness ==
    /\ Len(snapshots) = 2
    /\ SnapshotKeys(snapshots[1]) = {}
    /\ SnapshotKeys(snapshots[2]) = {Base64Url(1)}
    /\ cliConn[1].request = <<"register", 1>> /\ cliConn[1].pc = "done"
    /\ cliConn[2].request = <<"register", 2>> /\ cliConn[2].pc = "insert"
    /\ ledgerLock = 2
    /\ ~has_token(ledger, TokenOf(2))


\* C25: in every pass of the send loop of an accepted run the tag given to
\* send_test_packet is the iteration index itself, which is below iterations
\* and within 0..255, and no earlier iteration of the same path had this
\* tag; so when the send phase ends there is one key for each path and
\* iteration.
C25_TagNeverWraps ==
    [][hcPc = "send" =>
          LET path == all_paths.paths[hcP]
              key == PathKey(path, hcI)
          IN /\ hcI \in 0..(iterations - 1)
             /\ iterations <= IterationLimit
             /\ key[2] = hcI
             /\ key[2] \in 0..255
             /\ key \notin DOMAIN statuses
             /\ key \in DOMAIN statuses'
             /\ hcPc' = "resolve" =>
                   Cardinality(DOMAIN statuses') = iterations * Len(all_paths.paths)]_vars

\* A finished run of 255 iterations: the last iteration's key of the first
\* path has the tag 254, next to the first iteration's with the tag 0.
C25_Witness ==
    /\ iterations = IterationLimit
    /\ hcPc = "done"
    /\ all_paths.ok
    /\ <<all_paths.paths[1], 254>> \in DOMAIN statuses
    /\ <<all_paths.paths[1], 0>> \in DOMAIN statuses
====
